---- MODULE Spec2Model ----
(***************************************************************************)
(* LocalExpansion (local_expansion.h): truncated local series expansion of *)
(* a kernel around a centre, with accumulation, evaluation, order          *)
(* selection and the far-field-to-local / local-to-local translations.     *)
(*                                                                         *)
(* Arithmetic is exact.  A local coefficient is held as an integer in      *)
(* units of 1/CoeffScale, CoeffScale = max_order!, so that the signed      *)
(* inverse multi-index factorials (-1)^|a| / a! are integers; every        *)
(* coordinate is a multiple of the bandwidth factor, so that the scaled    *)
(* displacements are integers as well.  SeriesExpansionAux, the kernel     *)
(* derivative generator and FarFieldExpansion are consumed through their   *)
(* interfaces (spec sections 2 and 6).                                     *)
(***************************************************************************)
EXTENDS Integers, Sequences, FiniteSets, TLC

VARIABLES
  exps,     \* the LocalExpansion objects: centre, order, coefficient buffer
  last,     \* the call made last, with its arguments and what it returned
  nops,     \* number of mutating calls made so far
  ofe,      \* the OrderForEvaluating calls in progress
  oin,      \* the arguments those calls share
  applied   \* the contributions already applied (reordering runs)

vars == <<exps, last, nops, ofe, oin, applied>>

(* ------------------------------ bounds -------------------------------- *)

\* dimension of the ambient space (sea_->get_dimension())
Dim == 2
\* maximum order the multi-index table is initialised for
MaxOrder == 2
\* number of columns of the reference data matrix
NumPoints == 1
\* number of mutating calls of a run
MaxOps == 2
\* kernel bandwidth h (kernel_.Init(bandwidth))
Bandwidth == 2

(* ------------------------- integer arithmetic ------------------------- *)

RECURSIVE Fact(_)
Fact(n) == IF n <= 0 THEN 1 ELSE n * Fact(n - 1)

RECURSIVE Pow(_, _)
Pow(b, n) == IF n <= 0 THEN 1 ELSE b * Pow(b, n - 1)

Binomial(n, k) == IF k < 0 \/ k > n THEN 0 ELSE Fact(n) \div (Fact(k) * Fact(n - k))

Max(a, b) == IF a >= b THEN a ELSE b

RECURSIVE SumRange(_, _, _)
\* f[lo] + ... + f[hi - 1]
SumRange(f, lo, hi) == IF lo >= hi THEN 0 ELSE f[lo] + SumRange(f, lo + 1, hi)

RECURSIVE ProdDims(_, _)
\* f[1] * ... * f[d]
ProdDims(f, d) == IF d <= 0 THEN 1 ELSE f[d] * ProdDims(f, d - 1)

RECURSIVE SumDims(_, _)
SumDims(f, d) == IF d <= 0 THEN 0 ELSE f[d] + SumDims(f, d - 1)

(* --------------------- SeriesExpansionAux (table) --------------------- *)

get_dimension == Dim

get_max_order == MaxOrder

TotalNumCoeffsTable == [p \in 0..(2 * MaxOrder) |-> Binomial(p + Dim, Dim)]

\* number of multi-indices of total degree <= p in Dim dimensions
get_total_num_coeffs(p) == TotalNumCoeffsTable[p]

get_max_total_num_coeffs == get_total_num_coeffs(MaxOrder)

RECURSIVE TuplesOfDegree(_, _)
RECURSIVE TuplesFrom(_, _, _)
\* the exponent tuples of d components and total degree k whose first
\* component is at most a, the larger first component first
TuplesFrom(d, k, a) ==
  IF a < 0 THEN << >>
  ELSE LET rest == TuplesOfDegree(d - 1, k - a)
       IN [i \in 1..Len(rest) |-> <<a>> \o rest[i]] \o TuplesFrom(d, k, a - 1)

TuplesOfDegree(d, k) == IF d = 1 THEN << <<k>> >> ELSE TuplesFrom(d, k, k)

RECURSIVE GradedTuples(_)
\* graded enumeration: degree 0, then degree 1, ... up to degree p
GradedTuples(p) ==
  IF p < 0 THEN << >> ELSE GradedTuples(p - 1) \o TuplesOfDegree(Dim, p)

\* the table enumerates the multi-indices up to degree 2 * max_order
MultiIndexTable == GradedTuples(2 * MaxOrder)

\* position (from 0) -> exponent tuple
get_multiindex(j) == MultiIndexTable[j + 1]

MultiIndexFactorial(alpha) == ProdDims([d \in 1..Dim |-> Fact(alpha[d])], Dim)

\* the unit of a stored coefficient is 1 / CoeffScale
CoeffScale == Fact(MaxOrder)

InvFactTable ==
  [j \in 0..(get_max_total_num_coeffs - 1) |->
     CoeffScale \div MultiIndexFactorial(get_multiindex(j))]

NegInvFactTable ==
  [j \in 0..(get_max_total_num_coeffs - 1) |->
     LET alpha == get_multiindex(j)
     IN (IF SumDims(alpha, Dim) % 2 = 0 THEN 1 ELSE -1) * InvFactTable[j]]

\* 1 / alpha!, times CoeffScale
get_inv_multiindex_factorials == InvFactTable

\* (-1)^|alpha| / alpha!, times CoeffScale
get_neg_inv_multiindex_factorials == NegInvFactTable

Dominates(beta, alpha) == \A d \in 1..Dim : beta[d] >= alpha[d]

RECURSIVE UpperFrom(_, _)
UpperFrom(j, k) ==
  IF k >= get_max_total_num_coeffs THEN << >>
  ELSE (IF Dominates(get_multiindex(k), get_multiindex(j)) THEN <<k>> ELSE << >>)
       \o UpperFrom(j, k + 1)

UpperTable == [j \in 0..(get_max_total_num_coeffs - 1) |-> UpperFrom(j, 0)]

\* the positions, ascending, whose multi-index is >= that of j in every
\* component
get_upper_mapping_index(j) == UpperTable[j]

MultichooseTable ==
  [n \in 0..(get_max_total_num_coeffs - 1) |->
     [k \in 0..(get_max_total_num_coeffs - 1) |->
        ProdDims([d \in 1..Dim |->
                    Binomial(get_multiindex(n)[d], get_multiindex(k)[d])], Dim)]]

\* the product over the dimensions of (n_d choose k_d)
get_n_multichoose_k_by_pos(n, k) == MultichooseTable[n][k]

\* entries the factorial table holds
FactorialLimit == 2 * MaxOrder + 1

\* n!, or a negative value outside the precomputed range
factorial(n) == IF n >= 0 /\ n < FactorialLimit THEN Fact(n) ELSE -1

(* ---------------------- kernel and its derivatives -------------------- *)

bandwidth_sq == Bandwidth * Bandwidth

\* the positive root of a perfect square
RECURSIVE SqrtFrom(_, _)
SqrtFrom(n, s) == IF s * s >= n THEN s ELSE SqrtFrom(n, s + 1)

Sqrt(n) == SqrtFrom(n, 0)

\* kd_.BandwidthFactor: the kernel family's length scale
BandwidthFactor(bwsq) == Sqrt(bwsq)

RECURSIVE HermiteRow(_, _, _)
\* one row of the derivative table at scaled displacement x, column by
\* column: row[n + 1] is column n
HermiteRow(x, limit, row) ==
  IF Len(row) >= limit THEN row
  ELSE LET n == Len(row)
       IN HermiteRow(x, limit,
                     Append(row, IF n = 0 THEN 1
                                 ELSE IF n = 1 THEN 2 * x
                                 ELSE 2 * x * row[n] - 2 * (n - 1) * row[n - 1]))

RECURSIVE DerivativeRows(_, _, _)
\* the rows of the derivative table, one per dimension
DerivativeRows(x, limit, rows) ==
  IF Len(rows) >= Dim THEN rows
  ELSE DerivativeRows(x, limit, Append(rows, HermiteRow(x[Len(rows) + 1], limit, <<>>)))

\* kd_.ComputeDirectionalDerivatives(x, derivative_map), derivative_map
\* having `limit` columns
ComputeDirectionalDerivatives(x, limit) == DerivativeRows(x, limit, <<>>)

\* kd_.ComputePartialDerivative(derivative_map, mapping)
ComputePartialDerivative(derivative_map, mapping) ==
  ProdDims([d \in 1..Dim |-> derivative_map[d][mapping[d] + 1]], Dim)

(* --------------------------- LocalExpansion --------------------------- *)

CoeffIndex == 0..(get_max_total_num_coeffs - 1)

ZeroCoeffs == [j \in CoeffIndex |-> 0]

\* Init(bandwidth, center, sea): order 0 and a zeroed buffer of the
\* table's maximum size
InitExpansion(center) == [center |-> center, order |-> 0, coeffs |-> ZeroCoeffs]

\* RaiseOrder with the comparison lost: the order is assigned
RaiseOrderAssign(order_, o) == o

\* the order after a call that carries order `o`: raised, never lowered
RaiseOrder(order_, o) == IF o > order_ THEN o ELSE order_

\* (to[d] - from[d]) / bandwidth_factor, for every dimension
ScaledDiff(to, from, bandwidth_factor) ==
  [d \in 1..Dim |-> (to[d] - from[d]) \div bandwidth_factor]

\* what one data point adds to each coefficient j < total_num_coeffs
PointTerms(center, point, weight, order) ==
  LET x_r_minus_x_Q == ScaledDiff(center, point, BandwidthFactor(bandwidth_sq))
      derivative_map == ComputeDirectionalDerivatives(x_r_minus_x_Q, order + 1)
  IN [j \in 0..(get_total_num_coeffs(order) - 1) |->
        LET arrtmp == ComputePartialDerivative(derivative_map, get_multiindex(j))
        IN get_neg_inv_multiindex_factorials[j] * weight * arrtmp]

\* AccumulateUpdate with = in the place of +=
AccumulateOverwrite(old, term) == term

\* coeffs_[j] += neg_inv_multiindex_factorials[j] * weights[r] * arrtmp[j]
AccumulateUpdate(old, term) == old + term

RECURSIVE AccumulatePoints(_, _, _, _, _, _, _)
\* the loop over the data points r = begin .. end - 1
AccumulatePoints(coeffs_, center, data, weights, r, end, order) ==
  IF r >= end THEN coeffs_
  ELSE LET total_num_coeffs == get_total_num_coeffs(order)
           terms == PointTerms(center, data[r], weights[r], order)
           next == [j \in CoeffIndex |->
                      IF j < total_num_coeffs THEN AccumulateUpdate(coeffs_[j], terms[j])
                      ELSE coeffs_[j]]
       IN AccumulatePoints(next, center, data, weights, r + 1, end, order)

\* AccumulateCoeffs(data, weights, begin, end, order) on expansion e
AccumulateCoeffs(e, data, weights, begin, end, order) ==
  [center |-> e.center,
   order |-> RaiseOrder(e.order, order),
   coeffs |-> AccumulatePoints(e.coeffs, e.center, data, weights, begin, end, order)]

(* EvaluateField: the monomial vector by the heads/tail recurrence *)

MAXINT == 2147483647

Uninit == "uninit"

RECURSIVE PowerInner(_, _, _, _, _)
\* for(j = head; j < tail; j++, t++) tmp[t] = tmp[j] * x_i
PowerInner(tmp, t, j, tail, xi) ==
  IF j >= tail THEN [tmp |-> tmp, t |-> t]
  ELSE PowerInner([tmp EXCEPT ![t] = tmp[j] * xi], t + 1, j + 1, tail, xi)

RECURSIVE PowerDimsStaleHeads(_, _, _, _, _, _)
\* PowerDims with heads[i] = t lost
PowerDimsStaleHeads(tmp, heads, t, tail, i, x) ==
  IF i >= Dim THEN [tmp |-> tmp, heads |-> heads, t |-> t]
  ELSE LET inner == PowerInner(tmp, t, heads[i], tail, x[i + 1])
       IN PowerDimsStaleHeads(inner.tmp, heads, inner.t, tail, i + 1, x)

RECURSIVE PowerDims(_, _, _, _, _, _)
\* for(i = 0; i < dim; i++) { head = heads[i]; heads[i] = t; ... }
PowerDims(tmp, heads, t, tail, i, x) ==
  IF i >= Dim THEN [tmp |-> tmp, heads |-> heads, t |-> t]
  ELSE LET inner == PowerInner(tmp, t, heads[i], tail, x[i + 1])
       IN PowerDims(inner.tmp, [heads EXCEPT ![i] = t], inner.t, tail, i + 1, x)

RECURSIVE PowerOrders(_, _, _, _, _, _, _)
\* for(k = 1, t = 1, tail = 1; k <= order_; k++, tail = t)
PowerOrders(tmp, heads, t, tail, k, order_, x) ==
  IF k > order_ THEN [tmp |-> tmp, t |-> t]
  ELSE LET body == PowerDims(tmp, heads, t, tail, 0, x)
       IN PowerOrders(body.tmp, body.heads, body.t, body.t, k + 1, order_, x)

\* tmp and t of EvaluateField after the power recurrence, for displacement
\* x and the given order
PowerRecurrence(order_, x) ==
  LET total_num_coeffs == get_total_num_coeffs(order_)
      tmp0 == [i \in 0..(total_num_coeffs - 1) |-> IF i = 0 THEN 1 ELSE Uninit]
      heads0 == [i \in 0..Dim |-> IF i = Dim THEN MAXINT ELSE 0]
  IN PowerOrders(tmp0, heads0, 1, 1, 1, order_, x)

\* the vector tmp of EvaluateField for displacement x and the given order
MonomialVector(order_, x) == PowerRecurrence(order_, x).tmp

\* t after the power recurrence: one more than the last position written
MonomialCount(order_, x) == PowerRecurrence(order_, x).t

\* FieldSum with the sum started at position 1
FieldSumFromOne(e, q) ==
  LET total_num_coeffs == get_total_num_coeffs(e.order)
      x_Q_to_x_q == ScaledDiff(q, e.center, BandwidthFactor(bandwidth_sq))
      tmp == MonomialVector(e.order, x_Q_to_x_q)
  IN SumRange([i \in 0..(total_num_coeffs - 1) |-> e.coeffs[i] * tmp[i]],
              1, total_num_coeffs)

\* the value EvaluateField returns for the query point q
FieldSum(e, q) ==
  LET total_num_coeffs == get_total_num_coeffs(e.order)
      x_Q_to_x_q == ScaledDiff(q, e.center, BandwidthFactor(bandwidth_sq))
      tmp == MonomialVector(e.order, x_Q_to_x_q)
  IN SumRange([i \in 0..(total_num_coeffs - 1) |-> e.coeffs[i] * tmp[i]],
              0, total_num_coeffs)

(* TranslateFromFarField *)

\* far_coeffs[k] * derivative_factor for every k of the k-loop
FarFieldProds(far_coeffs, derivative_map, total_num_coeffs, j) ==
  [k \in 0..(total_num_coeffs - 1) |->
     LET beta_plus_alpha ==
           [d \in 1..Dim |-> get_multiindex(j)[d] + get_multiindex(k)[d]]
     IN far_coeffs[k] * ComputePartialDerivative(derivative_map, beta_plus_alpha)]

\* pos_arrtmp[j] + neg_arrtmp[j]: the positive products and the others are
\* summed apart and then added
FarFieldSplitSum(prod, total_num_coeffs) ==
  LET pos_arrtmp == SumRange([k \in 0..(total_num_coeffs - 1) |->
                                IF prod[k] > 0 THEN prod[k] ELSE 0],
                             0, total_num_coeffs)
      neg_arrtmp == SumRange([k \in 0..(total_num_coeffs - 1) |->
                                IF prod[k] > 0 THEN 0 ELSE prod[k]],
                             0, total_num_coeffs)
  IN pos_arrtmp + neg_arrtmp

\* what the translation adds to each coefficient j < total_num_coeffs of an
\* expansion at `center` whose order, after the raise, is order_
FarFieldTerms(center, order_, se) ==
  LET far_order == se.order
      total_num_coeffs == get_total_num_coeffs(far_order)
      limit == 2 * order_ + 1
      cent_diff == ScaledDiff(center, se.center, BandwidthFactor(bandwidth_sq))
      derivative_map == ComputeDirectionalDerivatives(cent_diff, limit)
  IN [j \in 0..(total_num_coeffs - 1) |->
        FarFieldSplitSum(FarFieldProds(se.coeffs, derivative_map, total_num_coeffs, j),
                         total_num_coeffs)
        * get_neg_inv_multiindex_factorials[j]]

\* FarFieldUpdate with = in the place of +=
FarFieldOverwrite(old, term) == term

\* coeffs_[j] += ..., for the positions the last loop visits
FarFieldUpdate(old, term) == old + term

\* e.TranslateFromFarField(se)
TranslateFromFarField(e, se) ==
  LET order_ == RaiseOrder(e.order, se.order)
      total_num_coeffs == get_total_num_coeffs(se.order)
      terms == FarFieldTerms(e.center, order_, se)
  IN [center |-> e.center,
      order |-> order_,
      coeffs |-> [j \in CoeffIndex |->
                    IF j < total_num_coeffs
                    THEN FarFieldUpdate(e.coeffs[j], terms[j])
                    ELSE e.coeffs[j]]]

(* TranslateToLocal *)

\* LocalProd without the choose weight
LocalProdUnweighted(coeffs_, center_diff, u, j) ==
  LET beta_mapping == get_multiindex(u)
      alpha_mapping == get_multiindex(j)
      tmp_storage == [l \in 1..Dim |-> beta_mapping[l] - alpha_mapping[l]]
      diff1 == ProdDims([l \in 1..Dim |-> Pow(center_diff[l], tmp_storage[l])], Dim)
  IN IF \E l \in 1..Dim : tmp_storage[l] < 0 THEN 0
     ELSE coeffs_[u] * diff1

\* one pass of the k-loop body for the upper position u: the product, or 0
\* when some exponent difference is negative (continue)
LocalProd(coeffs_, center_diff, u, j) ==
  LET beta_mapping == get_multiindex(u)
      alpha_mapping == get_multiindex(j)
      tmp_storage == [l \in 1..Dim |-> beta_mapping[l] - alpha_mapping[l]]
      diff1 == ProdDims([l \in 1..Dim |-> Pow(center_diff[l], tmp_storage[l])], Dim)
  IN IF \E l \in 1..Dim : tmp_storage[l] < 0 THEN 0
     ELSE coeffs_[u] * diff1 * get_n_multichoose_k_by_pos(u, j)

RECURSIVE LocalPartialSum(_, _, _, _, _, _, _)
\* pos_coeffs (positive = TRUE) or neg_coeffs after the k-loop, which
\* breaks at the first upper position >= total_num_coeffs
LocalPartialSum(coeffs_, center_diff, upper, k, total_num_coeffs, j, positive) ==
  IF k > Len(upper) THEN 0
  ELSE IF upper[k] >= total_num_coeffs THEN 0
  ELSE LET prod == LocalProd(coeffs_, center_diff, upper[k], j)
       IN (IF (prod > 0) = positive THEN prod ELSE 0)
          + LocalPartialSum(coeffs_, center_diff, upper, k + 1, total_num_coeffs, j, positive)

\* what this.TranslateToLocal(se) adds to each coefficient j of se
LocalTerms(this, new_center) ==
  LET total_num_coeffs == get_total_num_coeffs(this.order)
      center_diff == ScaledDiff(new_center, this.center, BandwidthFactor(bandwidth_sq))
  IN [j \in 0..(total_num_coeffs - 1) |->
        LET upper == get_upper_mapping_index(j)
        IN LocalPartialSum(this.coeffs, center_diff, upper, 1, total_num_coeffs, j, TRUE)
           + LocalPartialSum(this.coeffs, center_diff, upper, 1, total_num_coeffs, j, FALSE)]

\* new_coeffs[j] += pos_coeffs + neg_coeffs
LocalUpdate(old, term) == old + term

\* LocalOrder with the raise lost
LocalOrderKept(this_order, prev_order) == prev_order

\* the order of se after this.TranslateToLocal(se)
LocalOrder(this_order, prev_order) ==
  IF prev_order < this_order THEN this_order ELSE prev_order

\* se after this.TranslateToLocal(se), for two distinct objects
TranslateToLocal(this, se) ==
  LET total_num_coeffs == get_total_num_coeffs(this.order)
      terms == LocalTerms(this, se.center)
  IN [center |-> se.center,
      order |-> LocalOrder(this.order, se.order),
      coeffs |-> [j \in CoeffIndex |->
                    IF j < total_num_coeffs
                    THEN LocalUpdate(se.coeffs[j], terms[j])
                    ELSE se.coeffs[j]]]

(* ------------------------------ inputs -------------------------------- *)

\* coordinate k bandwidth factors away from the origin
Coord(k) == k * BandwidthFactor(bandwidth_sq)

\* the point (a, b, b, ...) in bandwidth factors
Vec(a, b) == [d \in 1..Dim |-> Coord(IF d = 1 THEN a ELSE b)]

\* the two expansions of a run: the one called on and the destination
Exps == 1..2

\* the centre expansion i is initialised with
CenterOf(i) == Vec(i - 1, 1 - i)

\* reference data: column r of the matrix, and its weight
DataMatrix == [r \in 0..(NumPoints - 1) |-> Vec(r - 1, 1 - r)]

Weights == [r \in 0..(NumPoints - 1) |-> IF r % 2 = 0 THEN r + 1 ELSE -(r + 1)]

QueryPoints == {Vec(0, 0), Vec(1, 2)}

\* a far-field expansion of order o centred at c
FarField(o, c) ==
  [center |-> c, order |-> o,
   coeffs |-> [k \in CoeffIndex |->
                 IF k < get_total_num_coeffs(o) THEN ((k + o) % 3) - 1 ELSE 0]]

FarSources == {FarField(o, Vec(2, 1)) : o \in 0..MaxOrder}

NoFar == FarField(0, Vec(0, 0))

NoCall ==
  [op |-> "none", e |-> 0, src |-> 0, order |-> 0, se |-> NoFar,
   hasData |-> FALSE, hasPoint |-> FALSE, q |-> Vec(0, 0),
   outcome |-> "none", value |-> 0]

(* ------------------------------ actions ------------------------------- *)

Init ==
  /\ exps = [i \in Exps |-> InitExpansion(CenterOf(i))]
  /\ last = NoCall
  /\ nops = 0
  /\ ofe = << >>
  /\ oin = << >>
  /\ applied = {}

\* exps[i].AccumulateCoeffs(data, weights, begin, end, order)
DoAccumulateCoeffs(i, begin, end, order) ==
  /\ nops < MaxOps
  /\ exps' = [exps EXCEPT ![i] =
                AccumulateCoeffs(exps[i], DataMatrix, Weights, begin, end, order)]
  /\ last' = [NoCall EXCEPT !.op = "AccumulateCoeffs", !.e = i, !.order = order]
  /\ nops' = nops + 1
  /\ UNCHANGED <<ofe, oin, applied>>

\* exps[i].TranslateFromFarField(se)
DoTranslateFromFarField(i, se) ==
  /\ nops < MaxOps
  /\ exps' = [exps EXCEPT ![i] = TranslateFromFarField(exps[i], se)]
  /\ last' = [NoCall EXCEPT !.op = "TranslateFromFarField", !.e = i, !.se = se,
                            !.order = se.order]
  /\ nops' = nops + 1
  /\ UNCHANGED <<ofe, oin, applied>>

\* exps[i].TranslateToLocal(exps[k]), two distinct objects
DoTranslateToLocal(i, k) ==
  /\ nops < MaxOps
  /\ i # k
  /\ exps' = [exps EXCEPT ![k] = TranslateToLocal(exps[i], exps[k])]
  /\ last' = [NoCall EXCEPT !.op = "TranslateToLocal", !.e = k, !.src = i,
                            !.order = exps[i].order]
  /\ nops' = nops + 1
  /\ UNCHANGED <<ofe, oin, applied>>

\* exps[i].EvaluateField(data, row_num, x_q) with data or x_q not NULL:
\* the point is read from the matrix when data is given, from x_q otherwise
DoEvaluateField(i, hasData, row_num, hasPoint, x_q) ==
  /\ hasData \/ hasPoint
  /\ LET q == IF hasData THEN DataMatrix[row_num] ELSE x_q
     IN last' = [NoCall EXCEPT !.op = "EvaluateField", !.e = i,
                               !.hasData = hasData, !.hasPoint = hasPoint, !.q = q,
                               !.outcome = "value", !.value = FieldSum(exps[i], q)]
  /\ UNCHANGED <<exps, nops, ofe, oin, applied>>

\* exps[i].EvaluateField() with the default arguments: (*x_q)[i] reads
\* through a null pointer; the call dies or goes on with whatever it read
DoEvaluateFieldNull(i, outcome, x_q) ==
  /\ last' = [NoCall EXCEPT !.op = "EvaluateField", !.e = i, !.outcome = outcome,
                            !.q = x_q,
                            !.value = IF outcome = "value" THEN FieldSum(exps[i], x_q)
                                      ELSE 0]
  /\ UNCHANGED <<exps, nops, ofe, oin, applied>>

Next ==
  \/ \E i \in Exps, begin \in 0..NumPoints, end \in 0..NumPoints, order \in 0..MaxOrder :
       begin <= end /\ DoAccumulateCoeffs(i, begin, end, order)
  \/ \E i \in Exps, se \in FarSources : DoTranslateFromFarField(i, se)
  \/ \E i \in Exps, k \in Exps : DoTranslateToLocal(i, k)

Spec == Init /\ [][Next]_vars

(* ----------------------- evaluation of the field ---------------------- *)

\* an expansion of order o at centre c whose coefficients below
\* get_total_num_coeffs(o) follow pattern s
PatternExpansion(c, o, s) ==
  [center |-> c, order |-> o,
   coeffs |-> [j \in CoeffIndex |->
                 IF j < get_total_num_coeffs(o) THEN ((2 * j + s) % 5) - 2 ELSE 0]]

Patterns == 0..2

InitEval ==
  /\ \E o \in [Exps -> 0..MaxOrder], s \in [Exps -> Patterns] :
       exps = [i \in Exps |-> PatternExpansion(CenterOf(i), o[i], s[i])]
  /\ last = NoCall
  /\ nops = 0
  /\ ofe = << >>
  /\ oin = << >>
  /\ applied = {}

NextEval ==
  \/ \E i \in Exps, hasData \in BOOLEAN, row_num \in 0..(NumPoints - 1),
        hasPoint \in BOOLEAN, x_q \in QueryPoints :
       DoEvaluateField(i, hasData, row_num, hasPoint, x_q)
  \/ \E i \in Exps, outcome \in {"abort", "value"}, x_q \in QueryPoints :
       DoEvaluateFieldNull(i, outcome, x_q)

SpecEval == InitEval /\ [][NextEval]_vars

(* ------------------------- OrderForEvaluating ------------------------- *)

(* A non-negative real is held exactly: a ratio as the pair <<n, d>>, and  *)
(* the bound term, which has a square root in it, by its square.           *)

RECURSIVE Gcd(_, _)
Gcd(a, b) == IF b = 0 THEN a ELSE Gcd(b, a % b)

\* the pair in lowest terms
Reduce(x) == LET g == Gcd(x[1], x[2]) IN IF g = 0 THEN x ELSE <<x[1] \div g, x[2] \div g>>

\* the value that stands for the sentinel the call returns on failure
Sentinel == -1

Unset == "unset"

\* the box with width w in the first dimension and v in the others
Box(w, v) == [d \in 1..Dim |-> [lo |-> 0, hi |-> IF d = 1 THEN w ELSE v]]

Regions == {Box(w, v) : w \in 0..(2 * Bandwidth + 1), v \in {0, 2 * Bandwidth - 1}}

\* min_dist_sqd_regions = k * 4 h^2 ln 2, for which the front factor
\* exp(-min_dist_sqd_regions / (4 h^2)) is exactly 1 / 2^k
DistanceSteps == 0..1

\* max_error values, as ratios
MaxErrors == {<<-1, 4>>, <<0, 4>>, <<1, 4>>, <<2, 4>>, <<4, 4>>, <<8, 4>>}

RatLeq(x, y) == x[1] * y[2] <= y[1] * x[2]

Calls == 1..2

\* exp(-min_dist_sqd_regions / (4 * bandwidth_sq))
FrontFactor(k) == <<1, Pow(2, k)>>

RECURSIVE WidestFrom(_, _, _)
\* for(d = 0; d < dim; d++) widest_width = max(widest_width, range.width())
WidestFrom(local_region, d, widest_width) ==
  IF d > Dim THEN widest_width
  ELSE WidestFrom(local_region, d + 1,
                  Max(widest_width, local_region[d].hi - local_region[d].lo))

\* r = widest_width / two_bandwidth
WidthRatio(local_region) ==
  <<WidestFrom(local_region, 1, 0), 2 * Sqrt(bandwidth_sq)>>

\* RatioTooLarge with > in the place of >=
RatioAboveOne(r) == r[1] > r[2]

\* if(r >= 1.0) return -1
RatioTooLarge(r) == r[1] >= r[2]

\* OrderExhausted with the test lost
OrderNeverExhausted(p_alpha, max_order) == FALSE

\* if(p_alpha > max_order) return -1
OrderExhausted(p_alpha, max_order) == p_alpha > max_order

\* the square of the bound term `ret` at order p_alpha, r_raised_to_p_alpha
\* being the running power of r
BoundSq(frontfactor, r_raised_to_p_alpha, p_alpha, floor_fact, ceil_fact) ==
  LET remainder == p_alpha % Dim
      count == get_total_num_coeffs(p_alpha + 1) - get_total_num_coeffs(p_alpha)
      num == frontfactor[1] * count * r_raised_to_p_alpha[1]
      den == frontfactor[2] * r_raised_to_p_alpha[2]
  IN Reduce(<<num * num,
              den * den * Pow(floor_fact, Dim - remainder) * Pow(ceil_fact, remainder)>>)

\* Exceeds with >= in the place of >
ExceedsOrEquals(retsq, max_error) ==
  \/ max_error[1] < 0
  \/ retsq[1] * max_error[2] * max_error[2] >= max_error[1] * max_error[1] * retsq[2]

\* Exceeds with the comparison turned round
ExceedsReversed(retsq, max_error) ==
  /\ max_error[1] >= 0
  /\ retsq[1] * max_error[2] * max_error[2] < max_error[1] * max_error[1] * retsq[2]

\* ret > max_error, ret being the non-negative root of retsq
Exceeds(retsq, max_error) ==
  \/ max_error[1] < 0
  \/ retsq[1] * max_error[2] * max_error[2] > max_error[1] * max_error[1] * retsq[2]

\* the locals of a call before its first statement; `queried` is the highest
\* order the call has passed to get_total_num_coeffs, -1 before any query
NewCall(max_error) ==
  [pc |-> "call", max_error |-> max_error, r |-> <<0, 1>>, p_alpha |-> 0,
   r_raised_to_p_alpha |-> <<1, 1>>, ret |-> Unset, actual_error |-> Unset,
   result |-> Unset, iters |-> 0, queried |-> -1]

InitOrder ==
  /\ exps = [i \in Exps |-> InitExpansion(CenterOf(i))]
  /\ last = NoCall
  /\ nops = 0
  /\ applied = {}
  /\ oin \in [local_region : Regions, dist : DistanceSteps]
  /\ \E e1 \in MaxErrors, e2 \in MaxErrors :
       /\ RatLeq(e1, e2)
       /\ ofe = [c \in Calls |-> NewCall(IF c = 1 THEN e1 ELSE e2)]

\* entry of OrderForEvaluating up to the loop
OFE_Begin(c) ==
  /\ ofe[c].pc = "call"
  /\ LET r == WidthRatio(oin.local_region)
     IN ofe' = [ofe EXCEPT ![c] =
                  IF RatioTooLarge(r)
                  THEN [@ EXCEPT !.pc = "done", !.r = r, !.result = Sentinel]
                  ELSE [@ EXCEPT !.pc = "loop", !.r = r]]
  /\ UNCHANGED <<exps, last, nops, oin, applied>>

\* one pass of the do-while body
OFE_Iterate(c) ==
  /\ ofe[c].pc = "loop"
  /\ LET o == ofe[c]
         max_order == get_max_order
         raised == <<o.r_raised_to_p_alpha[1] * o.r[1], o.r_raised_to_p_alpha[2] * o.r[2]>>
         floor_fact == factorial(o.p_alpha \div Dim)
         ceil_fact == factorial((o.p_alpha + Dim - 1) \div Dim)
         ret == BoundSq(FrontFactor(oin.dist), raised, o.p_alpha, floor_fact, ceil_fact)
     IN ofe' = [ofe EXCEPT ![c] =
                  IF OrderExhausted(o.p_alpha, max_order)
                  THEN [@ EXCEPT !.pc = "done", !.result = Sentinel, !.iters = @ + 1]
                  ELSE IF floor_fact < 0 \/ ceil_fact < 0
                  THEN [@ EXCEPT !.pc = "done", !.result = Sentinel, !.iters = @ + 1,
                                 !.r_raised_to_p_alpha = raised]
                  ELSE IF Exceeds(ret, o.max_error)
                  THEN [@ EXCEPT !.p_alpha = @ + 1, !.ret = ret, !.iters = @ + 1,
                                 !.r_raised_to_p_alpha = raised,
                                 !.queried = Max(@, o.p_alpha + 1)]
                  ELSE [@ EXCEPT !.pc = "done", !.ret = ret, !.actual_error = ret,
                                 !.result = o.p_alpha, !.iters = @ + 1,
                                 !.r_raised_to_p_alpha = raised,
                                 !.queried = Max(@, o.p_alpha + 1)]]
  /\ UNCHANGED <<exps, last, nops, oin, applied>>

NextOrder ==
  \/ \E c \in Calls : OFE_Begin(c)
  \/ \E c \in Calls : OFE_Iterate(c)

SpecOrder == InitOrder /\ [][NextOrder]_vars

(* ------------------- reordering of the contributions ------------------ *)

\* number of data points of the pool
PoolPoints == 4

\* the pool's data matrix and weights
PoolMatrix == [r \in 0..(PoolPoints - 1) |-> Vec((r % 3) - 1, 1 - (r % 2))]

PoolWeights == [r \in 0..(PoolPoints - 1) |-> IF r % 2 = 0 THEN r + 1 ELSE -(r + 1)]

\* the order the call that accumulates point r carries: the first points
\* the highest
PointOrder(r) == IF r < 2 THEN MaxOrder ELSE (MaxOrder + 1 - r) % (MaxOrder + 1)

PointItem(r) == [kind |-> "point", id |-> r]

FarItem(o) == [kind |-> "far", id |-> o]

PoolFar(o) == FarField(o, Vec(2, 1))

InitPerm ==
  /\ exps = [i \in Exps |-> InitExpansion(CenterOf(i))]
  /\ last = NoCall
  /\ nops = 0
  /\ ofe = << >>
  /\ oin = << >>
  /\ applied = {}

\* exps[1].AccumulateCoeffs(data, weights, begin, end, order) over points
\* not accumulated yet that all carry `order`
PermAccumulate(begin, end) ==
  /\ begin < end
  /\ \A r \in begin..(end - 1) :
       PointItem(r) \notin applied /\ PointOrder(r) = PointOrder(begin)
  /\ exps' = [exps EXCEPT ![1] =
                AccumulateCoeffs(exps[1], PoolMatrix, PoolWeights, begin, end,
                                 PointOrder(begin))]
  /\ applied' = applied \cup {PointItem(r) : r \in begin..(end - 1)}
  /\ UNCHANGED <<last, nops, ofe, oin>>

\* exps[1].TranslateFromFarField(se) for a source not translated yet
PermTranslate(o) ==
  /\ FarItem(o) \notin applied
  /\ exps' = [exps EXCEPT ![1] = TranslateFromFarField(exps[1], PoolFar(o))]
  /\ applied' = applied \cup {FarItem(o)}
  /\ UNCHANGED <<last, nops, ofe, oin>>

NextPerm ==
  \/ \E begin \in 0..PoolPoints, end \in 0..PoolPoints : PermAccumulate(begin, end)
  \/ \E o \in 0..MaxOrder : PermTranslate(o)

SpecPerm == InitPerm /\ [][NextPerm]_vars

(* ----------------------- local-to-local round trip -------------------- *)

TripCenters == {Vec(0, 0), Vec(1, -1), Vec(-1, 2)}

\* exps[1] at C1 with any order and coefficients, exps[2] fresh at C2,
\* exps[3] fresh at C1
InitTrip ==
  /\ \E c1 \in TripCenters, c2 \in TripCenters, o \in 0..MaxOrder, s \in Patterns :
       exps = [i \in 1..3 |->
                 IF i = 1 THEN PatternExpansion(c1, o, s)
                 ELSE IF i = 2 THEN InitExpansion(c2) ELSE InitExpansion(c1)]
  /\ last = NoCall
  /\ nops = 0
  /\ ofe = << >>
  /\ oin = << >>
  /\ applied = {}

\* exps[1].TranslateToLocal(exps[2]), then exps[2].TranslateToLocal(exps[3])
TripStep(i) ==
  /\ nops = i - 1
  /\ exps' = [exps EXCEPT ![i + 1] = TranslateToLocal(exps[i], exps[i + 1])]
  /\ nops' = nops + 1
  /\ last' = [NoCall EXCEPT !.op = "TranslateToLocal", !.e = i + 1, !.src = i,
                            !.order = exps[i].order]
  /\ UNCHANGED <<ofe, oin, applied>>

NextTrip == \E i \in 1..2 : TripStep(i)

SpecTrip == InitTrip /\ [][NextTrip]_vars

(* ------------------------------- claims ------------------------------- *)

\* C1: from one step to the next the order of no LocalExpansion decreases,
\* whatever order the call carries and whichever expansion it writes.
OrderNeverDecreases == [][\A i \in Exps : exps'[i].order >= exps[i].order]_vars

\* a call has carried an order below the order of the expansion it wrote
LowerOrderCallMade ==
  /\ last.op \in {"AccumulateCoeffs", "TranslateFromFarField", "TranslateToLocal"}
  /\ last.order < exps[last.e].order

RECURSIVE ReplayPoints(_, _)
\* the applied points accumulated one call each, by ascending column
ReplayPoints(e, r) ==
  IF r >= PoolPoints THEN e
  ELSE ReplayPoints(IF PointItem(r) \in applied
                    THEN AccumulateCoeffs(e, PoolMatrix, PoolWeights, r, r + 1,
                                          PointOrder(r))
                    ELSE e,
                    r + 1)

RECURSIVE ReplayFar(_, _)
\* the applied far-field sources translated by ascending order
ReplayFar(e, o) ==
  IF o > MaxOrder THEN e
  ELSE ReplayFar(IF FarItem(o) \in applied THEN TranslateFromFarField(e, PoolFar(o))
                 ELSE e,
                 o + 1)

\* C3: the coefficients and the order depend on the contributions applied,
\* not on the order or the batching of the calls that applied them.
ContributionsCommute ==
  exps[1] = ReplayFar(ReplayPoints(InitExpansion(CenterOf(1)), 0), 0)

\* every contribution has been applied
AllContributionsApplied ==
  /\ \A r \in 0..(PoolPoints - 1) : PointItem(r) \in applied
  /\ \A o \in 0..MaxOrder : FarItem(o) \in applied
  /\ exps[1].order = MaxOrder

\* the square of the bound term at order q, by the closed form
BoundTermSq(q) ==
  LET r == WidthRatio(oin.local_region)
  IN BoundSq(FrontFactor(oin.dist), <<Pow(r[1], q + 1), Pow(r[2], q + 1)>>, q,
             factorial(q \div Dim), factorial((q + Dim - 1) \div Dim))

RECURSIVE RatioLeq(_, _, _, _)
\* a / b <= c / d for a, c >= 0 and b, d > 0, by comparing the integer
\* parts and then the reciprocals of the fractional parts
RatioLeq(a, b, c, d) ==
  IF a \div b # c \div d THEN a \div b < c \div d
  ELSE IF a % b = 0 THEN TRUE
  ELSE IF c % d = 0 THEN FALSE
  ELSE RatioLeq(d, c % d, b, a % b)

\* bound <= max_error, the bound given by its square
BoundMeets(boundsq, max_error) ==
  /\ max_error[1] >= 0
  /\ RatioLeq(boundsq[1], boundsq[2],
              max_error[1] * max_error[1], max_error[2] * max_error[2])

\* some dimension of the region is at least 2 * bandwidth wide
RegionTooWide ==
  \E d \in 1..Dim : oin.local_region[d].hi - oin.local_region[d].lo >= 2 * Bandwidth

\* C4: an order returned is within 0..max_order, meets max_error, is the
\* smallest that does and comes with its bound term in *actual_error; when
\* no order up to max_order meets max_error the sentinel is returned.
OrderIsSmallestSufficient ==
  \A c \in Calls :
    ofe[c].pc = "done" =>
      LET o == ofe[c]
      IN /\ o.result # Sentinel =>
              /\ o.result \in 0..get_max_order
              /\ BoundMeets(BoundTermSq(o.result), o.max_error)
              /\ \A q \in 0..(o.result - 1) : ~BoundMeets(BoundTermSq(q), o.max_error)
              /\ o.actual_error = BoundTermSq(o.result)
         /\ (\A q \in 0..get_max_order : ~BoundMeets(BoundTermSq(q), o.max_error))
              => o.result = Sentinel

\* a search has gone past order 0 and returned an order
SearchReturnedHigherOrder ==
  \E c \in Calls : ofe[c].pc = "done" /\ ofe[c].result # Sentinel /\ ofe[c].result >= 1

\* C5: for a region at least 2 * bandwidth wide the call returns the
\* sentinel before any pass of the loop and leaves *actual_error unwritten.
WideRegionFailsAtOnce ==
  \A c \in Calls :
    (RegionTooWide /\ ofe[c].pc # "call") =>
      /\ ofe[c].pc = "done"
      /\ ofe[c].result = Sentinel
      /\ ofe[c].iters = 0
      /\ ofe[c].actual_error = Unset

\* a call has returned for a region exactly 2 * bandwidth wide
WideRegionCallReturned ==
  /\ RegionTooWide
  /\ WidthRatio(oin.local_region)[1] = WidthRatio(oin.local_region)[2]
  /\ \E c \in Calls : ofe[c].pc = "done" /\ ofe[c].max_error[1] > 0

\* C6 as stated: for e1 <= e2 the value returned for e2 is never greater
\* than the value returned for e1.
ReturnedValueMonotone ==
  (ofe[1].pc = "done" /\ ofe[2].pc = "done" /\ RatLeq(ofe[1].max_error, ofe[2].max_error))
    => ofe[2].result <= ofe[1].result

\* C6 amended: for e1 <= e2, when the call for e1 returns an order the call
\* for e2 returns an order too, and not a greater one.
ReturnedOrderMonotone ==
  (/\ ofe[1].pc = "done" /\ ofe[2].pc = "done"
   /\ RatLeq(ofe[1].max_error, ofe[2].max_error)
   /\ ofe[1].result # Sentinel)
    => (ofe[2].result # Sentinel /\ ofe[2].result <= ofe[1].result)

\* two searches have returned different orders for different targets
LooserTargetLowerOrder ==
  /\ ofe[1].pc = "done" /\ ofe[2].pc = "done"
  /\ ofe[1].result # Sentinel /\ ofe[2].result # Sentinel
  /\ ofe[2].result < ofe[1].result

\* C7: every pass of the loop that does not end the call raises p_alpha by
\* one, p_alpha never passes max_order + 1, so the loop is entered at most
\* max_order + 2 times, and the call ends with an order or the sentinel.
SearchIsBounded ==
  \A c \in Calls :
    /\ ofe[c].pc = "call" => ofe[c].iters = 0
    /\ ofe[c].pc = "loop" =>
         (ofe[c].iters = ofe[c].p_alpha /\ ofe[c].p_alpha <= get_max_order + 1)
    /\ ofe[c].pc = "done" =>
         /\ ofe[c].iters <= get_max_order + 2
         /\ ofe[c].result \in {Sentinel} \cup 0..get_max_order

\* a search for a target no order meets has run out of orders
UnmeetableSearchEnded ==
  \E c \in Calls :
    /\ ofe[c].pc = "done"
    /\ ofe[c].max_error[1] <= 0
    /\ ofe[c].iters = get_max_order + 2
    /\ ofe[c].result = Sentinel

\* C8: an expansion of order 0 evaluates to coeffs[0] at every query point.
ZeroOrderEvaluatesToConstant ==
  (/\ last.op = "EvaluateField"
   /\ last.hasData \/ last.hasPoint
   /\ exps[last.e].order = 0)
    => (last.outcome = "value" /\ last.value = exps[last.e].coeffs[0])

\* an expansion of order 0 has been evaluated away from its centre
ZeroOrderEvaluatedOffCenter ==
  /\ last.op = "EvaluateField"
  /\ last.hasPoint /\ ~last.hasData
  /\ exps[last.e].order = 0
  /\ exps[last.e].coeffs[0] # 0
  /\ last.q # exps[last.e].center

\* C9: a call of EvaluateField with both of (data, row) and x_q, or with
\* neither, returns no field value.
EvaluateRejectsBothOrNeither ==
  (last.op = "EvaluateField" /\ last.hasData = last.hasPoint)
    => last.outcome # "value"

\* C10: translated from C1 to a fresh expansion at C2 and from there to a
\* fresh expansion at C1, the coefficients and the order are the original.
RoundTripRestores ==
  nops = 2 => (exps[3].coeffs = exps[1].coeffs /\ exps[3].order = exps[1].order)

\* a round trip of an expansion of the highest order between two different
\* centres has been made
RoundTripMade ==
  /\ nops = 2
  /\ exps[1].order = MaxOrder
  /\ exps[2].center # exps[1].center
  /\ exps[2].coeffs # exps[1].coeffs
  /\ \E j \in CoeffIndex : j >= get_total_num_coeffs(MaxOrder - 1) /\ exps[1].coeffs[j] # 0

\* the increment of coefficient j that a far-field translation owes to a
\* destination at `center` of order order_: the normalisation constant of j
\* times the sum over every source position k of far_coeffs[k] times the
\* partial derivative at multi-index(j) + multi-index(k)
FarFieldFullTerm(center, order_, se, j) ==
  LET cent_diff == ScaledDiff(center, se.center, BandwidthFactor(bandwidth_sq))
      derivative_map == ComputeDirectionalDerivatives(cent_diff, 2 * order_ + 1)
      num_far_coeffs == get_total_num_coeffs(se.order)
  IN get_neg_inv_multiindex_factorials[j]
     * SumRange([k \in 0..(num_far_coeffs - 1) |->
                   se.coeffs[k]
                   * ComputePartialDerivative(
                       derivative_map,
                       [d \in 1..Dim |-> get_multiindex(j)[d] + get_multiindex(k)[d]])],
                0, num_far_coeffs)

\* C11: a far-field translation raises the destination order to the larger
\* of the two orders and adds to every coefficient j below the count of the
\* destination order the full increment of j, also when the destination
\* order is above the source order.
TranslationUpdatesEveryIndex ==
  [][last'.op = "TranslateFromFarField" =>
       LET i == last'.e
           order_ == exps'[i].order
       IN /\ order_ = Max(exps[i].order, last'.se.order)
          /\ \A j \in 0..(get_total_num_coeffs(order_) - 1) :
               exps'[i].coeffs[j] =
                 exps[i].coeffs[j]
                 + FarFieldFullTerm(exps[i].center, order_, last'.se, j)]_vars

\* displacement x raised to the multi-index at table position t
MonomialAt(x, t) ==
  ProdDims([d \in 1..Dim |-> Pow(x[d], get_multiindex(t)[d])], Dim)

\* C12: the power recurrence of EvaluateField writes the positions 1, 2, ...
\* one after the other up to the count of the order, position t holding the
\* displacement raised to the multi-index the table has at t, and the value
\* returned is the sum of coeffs[t] times that monomial.
PowerRecurrenceMatchesTable ==
  (last.op = "EvaluateField" /\ last.outcome = "value") =>
    LET e == exps[last.e]
        x == ScaledDiff(last.q, e.center, BandwidthFactor(bandwidth_sq))
        total_num_coeffs == get_total_num_coeffs(e.order)
        tmp == MonomialVector(e.order, x)
    IN /\ MonomialCount(e.order, x) = total_num_coeffs
       /\ DOMAIN tmp = 0..(total_num_coeffs - 1)
       /\ \A t \in 0..(total_num_coeffs - 1) : tmp[t] = MonomialAt(x, t)
       /\ last.value = SumRange([t \in 0..(total_num_coeffs - 1) |->
                                   e.coeffs[t] * MonomialAt(x, t)],
                                0, total_num_coeffs)

\* an expansion of the highest order has been evaluated at a displacement
\* whose monomials of the highest degree all differ
HighestOrderEvaluated ==
  /\ last.op = "EvaluateField" /\ last.outcome = "value"
  /\ exps[last.e].order = MaxOrder
  /\ LET x == ScaledDiff(last.q, exps[last.e].center, BandwidthFactor(bandwidth_sq))
         top == (get_total_num_coeffs(MaxOrder - 1))..(get_total_num_coeffs(MaxOrder) - 1)
     IN \A t \in top, u \in top : t # u => MonomialAt(x, t) # MonomialAt(x, u)

\* C13: every coefficient of an expansion at a position at or above the
\* count of its order is zero, in every state reached from Init by
\* AccumulateCoeffs, TranslateFromFarField and TranslateToLocal.
CoeffsBeyondOrderAreZero ==
  \A i \in Exps : \A j \in CoeffIndex :
    j >= get_total_num_coeffs(exps[i].order) => exps[i].coeffs[j] = 0

\* a local translation has left its destination at an order below the
\* highest, with a coefficient of that order's top degree not zero and the
\* buffer reaching past the count of that order
TranslatedBelowHighestOrder ==
  /\ last.op = "TranslateToLocal"
  /\ exps[last.e].order \in 1..(MaxOrder - 1)
  /\ get_total_num_coeffs(exps[last.e].order) < get_max_total_num_coeffs
  /\ \E j \in CoeffIndex :
       /\ j >= get_total_num_coeffs(exps[last.e].order - 1)
       /\ j < get_total_num_coeffs(exps[last.e].order)
       /\ exps[last.e].coeffs[j] # 0

\* C14: no call of OrderForEvaluating passes an order above max_order to
\* get_total_num_coeffs.
TableQueriesWithinMaxOrder ==
  \A c \in Calls : ofe[c].queried <= get_max_order

====
